---- MODULE Spec2Model ----
(***************************************************************************)
(* Model of dlg_oskar_components/apps.py: the two DALiuGE application      *)
(* components OSKARInterferometer and OSKARImager.  One Python process     *)
(* hosts the components; the host engine binds a component's parameters    *)
(* and ports (initialize) and then calls its run() method.  Every          *)
(* statement of run() that calls into oskar, dlg or matplotlib is one step *)
(* of the model, and every such call may raise.                            *)
(***************************************************************************)
EXTENDS Integers, Sequences, FiniteSets, TLC

(***************************************************************************)
(* Bounds of the model.                                                    *)
(***************************************************************************)
\* number of run() invocations the host makes in one process
MaxRuns == 2
\* number of OSKARImager parameters that differ from their default at once
MaxNonDefault == 1
\* number of drops the host connects to the input side of a component
MaxInputs == 3
\* number of drops the host connects to the output side of a component
MaxOutputs == 1

(***************************************************************************)
(* Python values.  A value keeps its Python type, so that the boolean True *)
(* and the string 'true' are different values.                             *)
(***************************************************************************)
PyBool(b) == [type |-> "bool", b |-> b, n |-> 0, s |-> ""]
PyFloat(n) == [type |-> "float", b |-> FALSE, n |-> n, s |-> ""]
PyInt(n) == [type |-> "int", b |-> FALSE, n |-> n, s |-> ""]
PyStr(s) == [type |-> "str", b |-> FALSE, n |-> 0, s |-> s]

\* Python truth value of a parameter, as used by `if x:` and `a if x else b`
Truthy(v) ==
    IF v.type = "bool" THEN v.b
    ELSE IF v.type = "str" THEN v.s # ""
    ELSE v.n # 0

(***************************************************************************)
(* Component parameters (the dlg_*_param class attributes).                *)
(***************************************************************************)
InterferometerDefaults ==
    [ doubleprecision      |-> PyBool(TRUE),
      usegpu               |-> PyBool(FALSE),
      channel_bandwidth_hz |-> PyFloat(0),
      time_average_sec     |-> PyFloat(0),
      force_polarised_ms   |-> PyBool(FALSE),
      ignore_w_components  |-> PyBool(FALSE) ]

\* every combination of interferometer parameter values the host may bind
InterferometerConfigs ==
    [ doubleprecision      : {PyBool(TRUE), PyBool(FALSE)},
      usegpu               : {PyBool(TRUE), PyBool(FALSE)},
      channel_bandwidth_hz : {PyFloat(0), PyFloat(5)},
      time_average_sec     : {PyFloat(0), PyFloat(7)},
      force_polarised_ms   : {PyBool(TRUE), PyBool(FALSE)},
      ignore_w_components  : {PyBool(TRUE), PyBool(FALSE)} ]

ImagerDefaults ==
    [ doubleprecision   |-> PyBool(TRUE),
      usegpu            |-> PyBool(FALSE),
      specify_cellsize  |-> PyBool(FALSE),
      fov_deg           |-> PyFloat(2),
      cellsize_arcsec   |-> PyFloat(1),
      size              |-> PyInt(256),
      image_type        |-> PyStr("I"),
      channel_snapshots |-> PyBool(FALSE),
      freq_min_hz       |-> PyFloat(0),
      freq_max_hz       |-> PyStr("max"),
      time_min_utc      |-> PyStr("0"),
      time_max_utc      |-> PyStr("0"),
      uv_filter_min     |-> PyFloat(0),
      uv_filter_max     |-> PyStr("max"),
      algorithm         |-> PyStr("FFT"),
      weighting         |-> PyStr("Natural"),
      u_wavelengths     |-> PyFloat(0),
      v_wavelengths     |-> PyFloat(0) ]

\* one non-default value per imager parameter, all distinguishable
ImagerOverrides ==
    [ doubleprecision   |-> PyBool(FALSE),
      usegpu            |-> PyBool(TRUE),
      specify_cellsize  |-> PyBool(TRUE),
      fov_deg           |-> PyFloat(4),
      cellsize_arcsec   |-> PyFloat(3),
      size              |-> PyInt(512),
      image_type        |-> PyStr("PSF"),
      channel_snapshots |-> PyBool(TRUE),
      freq_min_hz       |-> PyFloat(11),
      freq_max_hz       |-> PyStr("min"),
      time_min_utc      |-> PyStr("51544.5"),
      time_max_utc      |-> PyStr("51545.0"),
      uv_filter_min     |-> PyFloat(13),
      uv_filter_max     |-> PyStr("1000"),
      algorithm         |-> PyStr("DFT 2D"),
      weighting         |-> PyStr("Uniform"),
      u_wavelengths     |-> PyFloat(17),
      v_wavelengths     |-> PyFloat(19) ]

\* the imager configurations the host may bind: the defaults with at most
\* MaxNonDefault parameters overridden
ImagerConfigs ==
    { [f \in DOMAIN ImagerDefaults |->
          IF f \in S THEN ImagerOverrides[f] ELSE ImagerDefaults[f]] :
      S \in {T \in SUBSET (DOMAIN ImagerDefaults) : Cardinality(T) <= MaxNonDefault} }

(***************************************************************************)
(* Ports.  The host gives every connected drop a path of its own; Python's *)
(* inputs[i] is inputs[i+1] here.                                          *)
(***************************************************************************)
InputDrops(n) == [i \in 1..n |-> [path |-> "/in/" \o ToString(i - 1)]]
OutputDrops(n) == [i \in 1..n |-> [path |-> "/out/" \o ToString(i - 1)]]

(***************************************************************************)
(* oskar.SettingsTree.from_dict: a nested dictionary section -> key ->     *)
(* value becomes the flat mapping "section/key" -> value.                  *)
(***************************************************************************)
RECURSIVE flatten_section(_, _, _)
\* the entries of one section, each under "section/key"
flatten_section(s, d, keys) ==
    IF keys = {} THEN [path \in {} |-> path]
    ELSE LET k == CHOOSE k \in keys : TRUE
         IN  ((s \o "/" \o k) :> d[k]) @@ flatten_section(s, d, keys \ {k})

RECURSIVE flatten(_, _)
flatten(params, sections) ==
    IF sections = {} THEN [path \in {} |-> path]
    ELSE LET s == CHOOSE s \in sections : TRUE
         IN  flatten_section(s, params[s], DOMAIN params[s])
                 @@ flatten(params, sections \ {s})

from_dict(params) == flatten(params, DOMAIN params)

\* settings[key] = value on a settings tree
setitem(tree, key, value) ==
    [ path \in DOMAIN tree \cup {key} |-> IF path = key THEN value ELSE tree[path] ]

(***************************************************************************)
(* OSKARInterferometer.run, pure parts.                                    *)
(***************************************************************************)
\* a guard that forgets the inputs
InterferometerGuardOutputsOnly(ins, outs) ==
    ~(Len(outs) < 1)

\* the port guard at the head of run(): TRUE when no exception is raised
InterferometerGuard(ins, outs) ==
    ~(Len(outs) < 1) /\ ~(Len(ins) < 3)

\* a params dictionary with the two smearing parameters interchanged
InterferometerParamsSwapped(cfg, ins, outs) ==
    [ simulator |->
        [ use_gpus |-> cfg.usegpu ],
      observation |->
        [ num_channels         |-> PyInt(3),
          start_frequency_hz   |-> PyFloat(100000000),
          frequency_inc_hz     |-> PyFloat(20000000),
          phase_centre_ra_deg  |-> PyInt(20),
          phase_centre_dec_deg |-> PyInt(-30),
          num_time_steps       |-> PyInt(24),
          start_time_utc       |-> PyStr("01-01-2000 12:00:00.000"),
          length               |-> PyStr("12:00:00.000") ],
      telescope |->
        [ input_directory |-> PyStr(ins[1].path) ],
      interferometer |->
        [ oskar_vis_filename   |-> PyStr(outs[1].path),
          ms_filename          |-> PyStr(""),
          channel_bandwidth_hz |-> cfg.time_average_sec,
          time_average_sec     |-> cfg.channel_bandwidth_hz,
          force_polarised_ms   |-> cfg.force_polarised_ms,
          ignore_w_components  |-> cfg.ignore_w_components ] ]

\* the params dictionary
InterferometerParams(cfg, ins, outs) ==
    [ simulator |->
        [ use_gpus |-> cfg.usegpu ],
      observation |->
        [ num_channels         |-> PyInt(3),
          start_frequency_hz   |-> PyFloat(100000000),
          frequency_inc_hz     |-> PyFloat(20000000),
          phase_centre_ra_deg  |-> PyInt(20),
          phase_centre_dec_deg |-> PyInt(-30),
          num_time_steps       |-> PyInt(24),
          start_time_utc       |-> PyStr("01-01-2000 12:00:00.000"),
          length               |-> PyStr("12:00:00.000") ],
      telescope |->
        [ input_directory |-> PyStr(ins[1].path) ],
      interferometer |->
        [ oskar_vis_filename   |-> PyStr(outs[1].path),
          ms_filename          |-> PyStr(""),
          channel_bandwidth_hz |-> cfg.channel_bandwidth_hz,
          time_average_sec     |-> cfg.time_average_sec,
          force_polarised_ms   |-> cfg.force_polarised_ms,
          ignore_w_components  |-> cfg.ignore_w_components ] ]

\* the settings tree after from_dict and the double_precision override
InterferometerSettings(cfg, ins, outs) ==
    setitem(from_dict(InterferometerParams(cfg, ins, outs)),
            "simulator/double_precision", cfg.doubleprecision)

\* a sky model that is built in double precision whatever the flag says
PrecisionTagAlwaysDouble(cfg) == "double"

\* temp_precision
PrecisionTag(cfg) ==
    IF Truthy(cfg.doubleprecision) THEN "double" ELSE "single"

(***************************************************************************)
(* OSKARImager.run, pure parts.                                            *)
(***************************************************************************)
\* the entries of the image section that no variant below changes
ImagerPlainEntries(cfg, ins) ==
    [ specify_cellsize  |-> cfg.specify_cellsize,
      fov_deg           |-> cfg.fov_deg,
      cellsize_arcsec   |-> cfg.cellsize_arcsec,
      size              |-> cfg.size,
      image_type        |-> cfg.image_type,
      channel_snapshots |-> cfg.channel_snapshots,
      freq_min_hz       |-> cfg.freq_min_hz,
      freq_max_hz       |-> cfg.freq_max_hz,
      time_min_utc      |-> cfg.time_min_utc,
      time_max_utc      |-> cfg.time_max_utc,
      uv_filter_min     |-> cfg.uv_filter_min,
      uv_filter_max     |-> cfg.uv_filter_max,
      algorithm         |-> cfg.algorithm,
      weighting         |-> cfg.weighting,
      input_vis_data    |-> PyStr(ins[1].path) ]

\* a params dictionary that passes the two flags as Python booleans
ImagerParamsNativeFlags(cfg, ins) ==
    [ image |->
        ImagerPlainEntries(cfg, ins) @@
        [ double_precision |-> cfg.doubleprecision,
          use_gpus         |-> cfg.usegpu ] ]

\* a params dictionary with the two commented-out entries restored
ImagerParamsWithTaper(cfg, ins) ==
    [ image |->
        ImagerPlainEntries(cfg, ins) @@
        [ double_precision |-> PyStr(IF Truthy(cfg.doubleprecision) THEN "true" ELSE "false"),
          use_gpus         |-> PyStr(IF Truthy(cfg.usegpu) THEN "true" ELSE "false"),
          u_wavelengths    |-> cfg.u_wavelengths,
          v_wavelengths    |-> cfg.v_wavelengths ] ]

\* the params dictionary
ImagerParams(cfg, ins) ==
    [ image |->
        [ double_precision  |-> PyStr(IF Truthy(cfg.doubleprecision) THEN "true" ELSE "false"),
          use_gpus          |-> PyStr(IF Truthy(cfg.usegpu) THEN "true" ELSE "false"),
          specify_cellsize  |-> cfg.specify_cellsize,
          fov_deg           |-> cfg.fov_deg,
          cellsize_arcsec   |-> cfg.cellsize_arcsec,
          size              |-> cfg.size,
          image_type        |-> cfg.image_type,
          channel_snapshots |-> cfg.channel_snapshots,
          freq_min_hz       |-> cfg.freq_min_hz,
          freq_max_hz       |-> cfg.freq_max_hz,
          time_min_utc      |-> cfg.time_min_utc,
          time_max_utc      |-> cfg.time_max_utc,
          uv_filter_min     |-> cfg.uv_filter_min,
          uv_filter_max     |-> cfg.uv_filter_max,
          algorithm         |-> cfg.algorithm,
          weighting         |-> cfg.weighting,
          input_vis_data    |-> PyStr(ins[1].path) ] ]

\* pixel grids the external imager may return
Images == { <<<<0, 1>>, <<2, 3>>>>, <<<<3, 2>>, <<1, 0>>>> }

(***************************************************************************)
(* matplotlib.pyplot.  Its functions act on the current figure and axes of *)
(* the process, which pyplot creates on first use and keeps until closed.  *)
(***************************************************************************)
\* pyplot before anything has been drawn
NoFigure == [images |-> <<>>, colorbars |-> 0, row0_at_bottom |-> FALSE]

\* plt.imshow(image, cmap="jet"): adds the image to the current axes and sets
\* their limits to the image's extent, row 0 at the top
imshow(fig, img) ==
    [fig EXCEPT !.images = Append(@, [data |-> img, cmap |-> "jet"]),
                !.row0_at_bottom = FALSE]

\* plt.gca().invert_yaxis()
invert_yaxis(fig) == [fig EXCEPT !.row0_at_bottom = ~@]

\* plt.colorbar(im): adds one colour-scale legend to the current figure
colorbar(fig) == [fig EXCEPT !.colorbars = @ + 1]

\* plt.savefig(out_io): the current figure, rasterised as PNG
savefig(fig) == [format |-> "PNG", content |-> fig]

(***************************************************************************)
(* State.                                                                  *)
(***************************************************************************)
VARIABLES
    runs,       \* run() invocations started in this process
    kind,       \* class of the component being run
    self,       \* its bound parameters
    inputs,     \* self.inputs
    outputs,    \* self.outputs
    status,     \* Idle, Configured, Running, Executed, Failed
    pc,         \* the statement of run() that executes next (or that raised)
    error,      \* the exception that left run(), "" if none
    calls,      \* external calls made by this run, with their outcome
    params,     \* local: the params dictionary
    settings,   \* local: the settings tree
    sky,        \* local: sky_data and the sky model made of it
    sim,        \* local: the oskar.Interferometer
    imager,     \* local: the oskar.Imager
    image,      \* local: the pixel grid returned by the imager
    out_io,     \* local: the BytesIO buffer
    written,    \* what this run put at outputs[0]
    figure      \* matplotlib.pyplot's current figure (global to the process)

vars == <<runs, kind, self, inputs, outputs, status, pc, error, calls,
          params, settings, sky, sim, imager, image, out_io, written, figure>>

locals == <<params, settings, sky, sim, imager, image, out_io>>
binding == <<runs, kind, self, inputs, outputs>>

NoParams == <<>>
NoSettings == <<>>
NoSky == [data |-> "", precision |-> ""]
NoSim == [settings |-> NoSettings, sky |-> NoSky]
NoImager == [settings |-> NoSettings]
NoImage == <<>>
NoBuffer == <<>>

\* exceptions an external library may raise
ExternalErrors == {"ValueError", "RuntimeError"}

\* the statements of run() that call into oskar, dlg.droputils or matplotlib
ExternalSteps ==
    { "SettingsTree", "load_npy", "Sky.from_array", "Interferometer",
      "set_sky_model", "Interferometer.run", "Imager", "Imager.run",
      "render", "savefig" }

\* the blocking call that executes the simulation or the imaging
ExecutionCalls == {"Interferometer.run", "Imager.run"}

Init ==
    /\ runs = 0
    /\ kind = "none"
    /\ self = <<>>
    /\ inputs = <<>>
    /\ outputs = <<>>
    /\ status = "Idle"
    /\ pc = "none"
    /\ error = ""
    /\ calls = <<>>
    /\ params = NoParams
    /\ settings = NoSettings
    /\ sky = NoSky
    /\ sim = NoSim
    /\ imager = NoImager
    /\ image = NoImage
    /\ out_io = NoBuffer
    /\ written = <<>>
    /\ figure = NoFigure

Call(fn, result) == [fn |-> fn, result |-> result]

(***************************************************************************)
(* Host: initialize binds the parameters and the ports of a component.    *)
(***************************************************************************)
InitializeInterferometer ==
    /\ status = "Idle"
    /\ runs < MaxRuns
    /\ \E cfg \in InterferometerConfigs, nIn \in 0..MaxInputs, nOut \in 0..MaxOutputs :
          /\ self' = cfg
          /\ inputs' = InputDrops(nIn)
          /\ outputs' = OutputDrops(nOut)
    /\ kind' = "OSKARInterferometer"
    /\ runs' = runs + 1
    /\ status' = "Configured"
    /\ pc' = "guard"
    /\ UNCHANGED <<error, calls, written, figure, locals>>

InitializeImager ==
    /\ status = "Idle"
    /\ runs < MaxRuns
    /\ \E cfg \in ImagerConfigs, nIn \in 0..MaxInputs, nOut \in 0..MaxOutputs :
          /\ self' = cfg
          /\ inputs' = InputDrops(nIn)
          /\ outputs' = OutputDrops(nOut)
    /\ kind' = "OSKARImager"
    /\ runs' = runs + 1
    /\ status' = "Configured"
    /\ pc' = "params"
    /\ UNCHANGED <<error, calls, written, figure, locals>>

(***************************************************************************)
(* OSKARInterferometer.run                                                 *)
(***************************************************************************)
\* if len(self.outputs) < 1: raise ...; if len(self.inputs) < 3: raise ...
InterferometerCheckPorts ==
    /\ kind = "OSKARInterferometer"
    /\ status = "Configured"
    /\ pc = "guard"
    /\ IF InterferometerGuard(inputs, outputs)
       THEN /\ status' = "Running"
            /\ pc' = "params"
            /\ error' = error
       ELSE /\ status' = "Failed"
            /\ pc' = pc
            /\ error' = "ConfigurationError"
    /\ UNCHANGED <<binding, calls, written, figure, locals>>

\* params = {...}: reads self.inputs[0].path and self.outputs[0].path
InterferometerBuildParams ==
    /\ kind = "OSKARInterferometer"
    /\ status = "Running"
    /\ pc = "params"
    /\ IF Len(inputs) >= 1 /\ Len(outputs) >= 1
       THEN /\ params' = InterferometerParams(self, inputs, outputs)
            /\ pc' = "SettingsTree"
            /\ UNCHANGED <<status, error>>
       ELSE /\ status' = "Failed"
            /\ error' = "IndexError"
            /\ UNCHANGED <<params, pc>>
    /\ UNCHANGED <<binding, calls, written, figure,
                   settings, sky, sim, imager, image, out_io>>

\* settings = oskar.SettingsTree(...); settings.from_dict(params);
\* settings["simulator/double_precision"] = self.doubleprecision
InterferometerBuildSettings ==
    /\ kind = "OSKARInterferometer"
    /\ status = "Running"
    /\ pc = "SettingsTree"
    /\ settings' = InterferometerSettings(self, inputs, outputs)
    /\ calls' = Append(calls, Call(pc, "ok"))
    /\ pc' = "load_npy"
    /\ UNCHANGED <<binding, status, error, written, figure,
                   params, sky, sim, imager, image, out_io>>

\* sky_data = load_npy(self.inputs[1])
InterferometerLoadSky ==
    /\ kind = "OSKARInterferometer"
    /\ status = "Running"
    /\ pc = "load_npy"
    /\ IF Len(inputs) >= 2
       THEN /\ sky' = [data |-> inputs[2].path, precision |-> ""]
            /\ calls' = Append(calls, Call(pc, "ok"))
            /\ pc' = "Sky.from_array"
            /\ UNCHANGED <<status, error>>
       ELSE /\ status' = "Failed"
            /\ error' = "IndexError"
            /\ UNCHANGED <<sky, calls, pc>>
    /\ UNCHANGED <<binding, written, figure,
                   params, settings, sim, imager, image, out_io>>

\* temp_precision = ...; sky = oskar.Sky.from_array(sky_data, temp_precision)
InterferometerMakeSky ==
    /\ kind = "OSKARInterferometer"
    /\ status = "Running"
    /\ pc = "Sky.from_array"
    /\ sky' = [sky EXCEPT !.precision = PrecisionTag(self)]
    /\ calls' = Append(calls, Call(pc, "ok"))
    /\ pc' = "Interferometer"
    /\ UNCHANGED <<binding, status, error, written, figure,
                   params, settings, sim, imager, image, out_io>>

\* sim = oskar.Interferometer(settings=settings)
InterferometerConstruct ==
    /\ kind = "OSKARInterferometer"
    /\ status = "Running"
    /\ pc = "Interferometer"
    /\ sim' = [settings |-> settings, sky |-> NoSky]
    /\ calls' = Append(calls, Call(pc, "ok"))
    /\ pc' = "set_sky_model"
    /\ UNCHANGED <<binding, status, error, written, figure,
                   params, settings, sky, imager, image, out_io>>

\* sim.set_sky_model(sky)
InterferometerSetSky ==
    /\ kind = "OSKARInterferometer"
    /\ status = "Running"
    /\ pc = "set_sky_model"
    /\ sim' = [sim EXCEPT !.sky = sky]
    /\ calls' = Append(calls, Call(pc, "ok"))
    /\ pc' = "Interferometer.run"
    /\ UNCHANGED <<binding, status, error, written, figure,
                   params, settings, sky, imager, image, out_io>>

\* sim.run(): the simulator writes the visibilities to the file its settings
\* name; run() then returns
InterferometerRun ==
    /\ kind = "OSKARInterferometer"
    /\ status = "Running"
    /\ pc = "Interferometer.run"
    /\ written' = Append(written,
                         [path |-> sim.settings["interferometer/oskar_vis_filename"].s,
                          data |-> [format |-> "vis", content |-> sim]])
    /\ calls' = Append(calls, Call(pc, "ok"))
    /\ pc' = "return"
    /\ status' = "Executed"
    /\ UNCHANGED <<binding, error, figure, locals>>

\* an imager that checks its output port first, as the interferometer does
ImagerBuildParamsGuarded ==
    /\ kind = "OSKARImager"
    /\ status = "Configured"
    /\ pc = "params"
    /\ IF Len(outputs) < 1
       THEN /\ status' = "Failed"
            /\ error' = "ConfigurationError"
            /\ UNCHANGED <<params, pc>>
       ELSE IF Len(inputs) >= 1
       THEN /\ params' = ImagerParams(self, inputs)
            /\ pc' = "SettingsTree"
            /\ status' = "Running"
            /\ error' = error
       ELSE /\ status' = "Failed"
            /\ error' = "IndexError"
            /\ UNCHANGED <<params, pc>>
    /\ UNCHANGED <<binding, calls, written, figure,
                   settings, sky, sim, imager, image, out_io>>

(***************************************************************************)
(* OSKARImager.run                                                         *)
(***************************************************************************)
\* params = {...}: reads self.inputs[0].path
ImagerBuildParams ==
    /\ kind = "OSKARImager"
    /\ status = "Configured"
    /\ pc = "params"
    /\ IF Len(inputs) >= 1
       THEN /\ params' = ImagerParams(self, inputs)
            /\ pc' = "SettingsTree"
            /\ status' = "Running"
            /\ error' = error
       ELSE /\ status' = "Failed"
            /\ error' = "IndexError"
            /\ UNCHANGED <<params, pc>>
    /\ UNCHANGED <<binding, calls, written, figure,
                   settings, sky, sim, imager, image, out_io>>

\* settings = oskar.SettingsTree("oskar_imager"); settings.from_dict(params)
ImagerBuildSettings ==
    /\ kind = "OSKARImager"
    /\ status = "Running"
    /\ pc = "SettingsTree"
    /\ settings' = from_dict(params)
    /\ calls' = Append(calls, Call(pc, "ok"))
    /\ pc' = "Imager"
    /\ UNCHANGED <<binding, status, error, written, figure,
                   params, sky, sim, imager, image, out_io>>

\* imager = oskar.Imager(settings=settings)
ImagerConstruct ==
    /\ kind = "OSKARImager"
    /\ status = "Running"
    /\ pc = "Imager"
    /\ imager' = [settings |-> settings]
    /\ calls' = Append(calls, Call(pc, "ok"))
    /\ pc' = "Imager.run"
    /\ UNCHANGED <<binding, status, error, written, figure,
                   params, settings, sky, sim, image, out_io>>

\* image = imager.run(return_images=1)["images"][0]
ImagerRun ==
    /\ kind = "OSKARImager"
    /\ status = "Running"
    /\ pc = "Imager.run"
    /\ \E img \in Images : image' = img
    /\ calls' = Append(calls, Call(pc, "ok"))
    /\ pc' = "render"
    /\ UNCHANGED <<binding, status, error, written, figure,
                   params, settings, sky, sim, imager, out_io>>

\* im = plt.imshow(image, cmap="jet"); plt.gca().invert_yaxis(); plt.colorbar(im)
ImagerRender ==
    /\ kind = "OSKARImager"
    /\ status = "Running"
    /\ pc = "render"
    /\ figure' = colorbar(invert_yaxis(imshow(figure, image)))
    /\ calls' = Append(calls, Call(pc, "ok"))
    /\ pc' = "savefig"
    /\ UNCHANGED <<binding, status, error, written, locals>>

\* out_io = io.BytesIO(); plt.savefig(out_io); out_io.seek(0)
ImagerSaveFig ==
    /\ kind = "OSKARImager"
    /\ status = "Running"
    /\ pc = "savefig"
    /\ out_io' = savefig(figure)
    /\ calls' = Append(calls, Call(pc, "ok"))
    /\ pc' = "write"
    /\ UNCHANGED <<binding, status, error, written, figure,
                   params, settings, sky, sim, imager, image>>

\* a write that is issued twice
WriteOutputTwice(out, buf, w) ==
    Append(Append(w, [path |-> out.path, data |-> buf]), [path |-> out.path, data |-> buf])

\* what self.outputs[0].write(buf) leaves at the output
WriteOutput(out, buf, w) == Append(w, [path |-> out.path, data |-> buf])

\* self.outputs[0].write(out_io.getbuffer()); run() then returns
ImagerWrite ==
    /\ kind = "OSKARImager"
    /\ status = "Running"
    /\ pc = "write"
    /\ IF Len(outputs) >= 1
       THEN /\ written' = WriteOutput(outputs[1], out_io, written)
            /\ pc' = "return"
            /\ status' = "Executed"
            /\ error' = error
       ELSE /\ status' = "Failed"
            /\ error' = "IndexError"
            /\ UNCHANGED <<written, pc>>
    /\ UNCHANGED <<binding, calls, figure, locals>>

\* a run() that catches the first exception of an external call and repeats
\* the call
ExternalFailureRetried ==
    /\ status = "Running"
    /\ pc \in ExternalSteps
    /\ \E e \in ExternalErrors :
          /\ calls' = Append(calls, Call(pc, e))
          /\ IF \A i \in 1..Len(calls) : calls[i].result = "ok"
             THEN UNCHANGED <<status, error>>
             ELSE status' = "Failed" /\ error' = e
    /\ UNCHANGED <<binding, pc, written, figure, locals>>

(***************************************************************************)
(* Both components: run() has no try/except, so an exception raised by an  *)
(* external call leaves run() at once, as it is.                           *)
(***************************************************************************)
ExternalFailure ==
    /\ status = "Running"
    /\ pc \in ExternalSteps
    /\ \E e \in ExternalErrors :
          /\ calls' = Append(calls, Call(pc, e))
          /\ error' = e
    /\ status' = "Failed"
    /\ UNCHANGED <<binding, pc, written, figure, locals>>

\* run() has returned or raised: its frame, and with it every local, is gone
\* and the host is free to run another component in the process
RunReturns ==
    /\ status \in {"Executed", "Failed"}
    /\ status' = "Idle"
    /\ kind' = "none"
    /\ self' = <<>>
    /\ inputs' = <<>>
    /\ outputs' = <<>>
    /\ pc' = "none"
    /\ error' = ""
    /\ calls' = <<>>
    /\ params' = NoParams
    /\ settings' = NoSettings
    /\ sky' = NoSky
    /\ sim' = NoSim
    /\ imager' = NoImager
    /\ image' = NoImage
    /\ out_io' = NoBuffer
    /\ written' = <<>>
    /\ UNCHANGED <<runs, figure>>

Next ==
    \/ InitializeInterferometer
    \/ InitializeImager
    \/ InterferometerCheckPorts
    \/ InterferometerBuildParams
    \/ InterferometerBuildSettings
    \/ InterferometerLoadSky
    \/ InterferometerMakeSky
    \/ InterferometerConstruct
    \/ InterferometerSetSky
    \/ InterferometerRun
    \/ ImagerBuildParams
    \/ ImagerBuildSettings
    \/ ImagerConstruct
    \/ ImagerRun
    \/ ImagerRender
    \/ ImagerSaveFig
    \/ ImagerWrite
    \/ ExternalFailure
    \/ RunReturns

Spec == Init /\ [][Next]_vars

(***************************************************************************)
(* Properties.                                                             *)
(***************************************************************************)
\* call fn was made by this run and returned
Returned(fn) == \E i \in 1..Len(calls) : calls[i].fn = fn /\ calls[i].result = "ok"

\* how often the blocking execution call was issued
ExecCount(cs) == Cardinality({i \in 1..Len(cs) : cs[i].fn \in ExecutionCalls})

NoLocals ==
    /\ params = NoParams
    /\ settings = NoSettings
    /\ sky = NoSky
    /\ sim = NoSim
    /\ imager = NoImager
    /\ image = NoImage
    /\ out_io = NoBuffer

\* C1: an interferometer run with two or more connected inputs and one or
\* more connected outputs is not rejected by the port guard.
C1_TwoInputsAccepted ==
    (kind = "OSKARInterferometer" /\ Len(inputs) >= 2 /\ Len(outputs) >= 1)
        => ~(status = "Failed" /\ pc = "guard")

\* C2: an interferometer run with fewer than two inputs or without an output
\* fails with a configuration error, and no external call has been made
\* when it fails.
C2_RejectedBeforeAnyCall ==
    (kind = "OSKARInterferometer" /\ status # "Configured"
        /\ (Len(inputs) < 2 \/ Len(outputs) = 0))
        => /\ status = "Failed"
           /\ error = "ConfigurationError"
           /\ calls = <<>>
           /\ NoLocals
           /\ written = <<>>

C2_Witness ==
    /\ kind = "OSKARInterferometer"
    /\ Len(inputs) = 1
    /\ Len(outputs) = 1
    /\ status = "Failed"
    /\ calls = <<>>

\* C3: the settings handed to the interferometer carry every parameter under
\* its own dotted key, the two simulator flags as Python booleans, the
\* telescope directory from input 0 and the visibility file from output 0;
\* every other key is a fixed literal.
C3_InterferometerSettings ==
    (kind = "OSKARInterferometer" /\ sim.settings # NoSettings) =>
        LET t == sim.settings IN
        /\ DOMAIN t =
             { "simulator/use_gpus", "simulator/double_precision",
               "observation/num_channels", "observation/start_frequency_hz",
               "observation/frequency_inc_hz", "observation/phase_centre_ra_deg",
               "observation/phase_centre_dec_deg", "observation/num_time_steps",
               "observation/start_time_utc", "observation/length",
               "telescope/input_directory",
               "interferometer/oskar_vis_filename", "interferometer/ms_filename",
               "interferometer/channel_bandwidth_hz", "interferometer/time_average_sec",
               "interferometer/force_polarised_ms", "interferometer/ignore_w_components" }
        /\ t["simulator/use_gpus"] = self.usegpu
        /\ t["simulator/use_gpus"].type = "bool"
        /\ t["simulator/double_precision"] = self.doubleprecision
        /\ t["simulator/double_precision"].type = "bool"
        /\ t["telescope/input_directory"] = PyStr(inputs[1].path)
        /\ t["interferometer/oskar_vis_filename"] = PyStr(outputs[1].path)
        /\ t["interferometer/channel_bandwidth_hz"] = self.channel_bandwidth_hz
        /\ t["interferometer/time_average_sec"] = self.time_average_sec
        /\ t["interferometer/force_polarised_ms"] = self.force_polarised_ms
        /\ t["interferometer/ignore_w_components"] = self.ignore_w_components
        /\ t["interferometer/ms_filename"] = PyStr("")
        /\ t["observation/num_channels"] = PyInt(3)
        /\ t["observation/start_frequency_hz"] = PyFloat(100000000)
        /\ t["observation/frequency_inc_hz"] = PyFloat(20000000)
        /\ t["observation/phase_centre_ra_deg"] = PyInt(20)
        /\ t["observation/phase_centre_dec_deg"] = PyInt(-30)
        /\ t["observation/num_time_steps"] = PyInt(24)
        /\ t["observation/start_time_utc"] = PyStr("01-01-2000 12:00:00.000")
        /\ t["observation/length"] = PyStr("12:00:00.000")

C3_Witness ==
    /\ kind = "OSKARInterferometer"
    /\ status = "Executed"
    /\ self.usegpu = PyBool(TRUE)
    /\ self.channel_bandwidth_hz = PyFloat(5)
    /\ self.time_average_sec = PyFloat(0)
    /\ sim.settings["interferometer/channel_bandwidth_hz"] = PyFloat(5)

\* C4: the imager's settings carry double_precision and use_gpus as the
\* strings "true" or "false", every other parameter unchanged under its own
\* key, and the visibility file from input 0.
C4_ImagerSettings ==
    (kind = "OSKARImager" /\ settings # NoSettings) =>
        LET t == settings IN
        /\ DOMAIN t =
             { "image/double_precision", "image/use_gpus", "image/specify_cellsize",
               "image/fov_deg", "image/cellsize_arcsec", "image/size",
               "image/image_type", "image/channel_snapshots", "image/freq_min_hz",
               "image/freq_max_hz", "image/time_min_utc", "image/time_max_utc",
               "image/uv_filter_min", "image/uv_filter_max", "image/algorithm",
               "image/weighting", "image/input_vis_data" }
        /\ t["image/double_precision"] =
             (IF self.doubleprecision = PyBool(TRUE) THEN PyStr("true") ELSE PyStr("false"))
        /\ t["image/use_gpus"] =
             (IF self.usegpu = PyBool(TRUE) THEN PyStr("true") ELSE PyStr("false"))
        /\ t["image/specify_cellsize"] = self.specify_cellsize
        /\ t["image/fov_deg"] = self.fov_deg
        /\ t["image/cellsize_arcsec"] = self.cellsize_arcsec
        /\ t["image/size"] = self.size
        /\ t["image/image_type"] = self.image_type
        /\ t["image/channel_snapshots"] = self.channel_snapshots
        /\ t["image/freq_min_hz"] = self.freq_min_hz
        /\ t["image/freq_max_hz"] = self.freq_max_hz
        /\ t["image/time_min_utc"] = self.time_min_utc
        /\ t["image/time_max_utc"] = self.time_max_utc
        /\ t["image/uv_filter_min"] = self.uv_filter_min
        /\ t["image/uv_filter_max"] = self.uv_filter_max
        /\ t["image/algorithm"] = self.algorithm
        /\ t["image/weighting"] = self.weighting
        /\ t["image/input_vis_data"] = PyStr(inputs[1].path)

C4_Witness ==
    /\ kind = "OSKARImager"
    /\ imager.settings # NoSettings
    /\ self.doubleprecision = PyBool(FALSE)
    /\ imager.settings["image/double_precision"] = PyStr("false")
    /\ imager.settings["image/use_gpus"] = PyStr("false")

\* C5: once the sky model is built, simulator/double_precision is true
\* exactly when the sky model's precision is "double" and false exactly when
\* it is "single"; with doubleprecision toggled, the settings differ in that
\* one entry only and the precision tag is the other one.
C5_PrecisionConsistent ==
    (kind = "OSKARInterferometer" /\ sky.precision # "") =>
        LET key == "simulator/double_precision"
            toggled == [self EXCEPT !.doubleprecision = PyBool(~@.b)]
            other == InterferometerSettings(toggled, inputs, outputs)
        IN
        /\ sky.precision \in {"double", "single"}
        /\ (settings[key] = PyBool(TRUE)) <=> (sky.precision = "double")
        /\ (settings[key] = PyBool(FALSE)) <=> (sky.precision = "single")
        /\ DOMAIN other = DOMAIN settings
        /\ \A k \in DOMAIN settings : (other[k] = settings[k]) <=> (k # key)
        /\ PrecisionTag(toggled) # sky.precision

C5_Witness ==
    /\ kind = "OSKARInterferometer"
    /\ status = "Executed"
    /\ self.doubleprecision = PyBool(FALSE)
    /\ sim.sky.precision = "single"

C7_SingleShot ==
    [][ LET n == Len(calls')
            raised == n = Len(calls) + 1 /\ calls'[n].result # "ok"
        IN
        /\ ExecCount(calls') <= 1
        /\ (status \in {"Configured", "Running"}
               => status' \in {"Configured", "Running", "Executed", "Failed"})
        /\ (status \in {"Executed", "Failed"}
               => status' = "Idle" /\ calls' = <<>>)
        /\ (raised => status' = "Failed" /\ error' = calls'[n].result)
      ]_vars

C7_Witness ==
    /\ status = "Failed"
    /\ pc \in ExecutionCalls
    /\ error = "RuntimeError"
    /\ ExecCount(calls) = 1

\* C8: nothing a run creates (settings tree, image buffer, figure and axes)
\* is still there when the next run starts, and what an imager run writes is
\* the rendering of its own image alone.
C8_NoSharedState ==
    /\ (status = "Configured" => NoLocals /\ figure = NoFigure)
    /\ (kind = "OSKARImager" /\ written # <<>>
           => written[1].data = savefig(colorbar(invert_yaxis(imshow(NoFigure, image)))))

\* C9: an imager run writes to output 0 at most once, and only when imaging,
\* rendering and rasterising have all returned; a failed run has written
\* nothing.
C9_WriteOnceAfterRender ==
    (kind = "OSKARImager") =>
        /\ Len(written) <= 1
        /\ (written # <<>> =>
               /\ status = "Executed"
               /\ Returned("Imager.run") /\ Returned("render") /\ Returned("savefig")
               /\ out_io # NoBuffer
               /\ written[1] = [path |-> outputs[1].path, data |-> out_io])
        /\ (status = "Failed" => written = <<>>)

C9_Witness ==
    /\ kind = "OSKARImager"
    /\ status = "Executed"
    /\ Len(written) = 1
    /\ written[1].data.format = "PNG"

\* C10: an imager with an input but no output is never rejected up front: it
\* fails for the missing output only at the write, after imaging, rendering
\* and rasterising have returned, and it never completes; an interferometer
\* without an output fails before any call.
C10_NoOutputGuard ==
    /\ (kind = "OSKARImager" /\ Len(inputs) >= 1 /\ Len(outputs) = 0) =>
          /\ status # "Executed"
          /\ error \in {"", "IndexError"} \cup ExternalErrors
          /\ (error = "IndexError" =>
                 /\ status = "Failed"
                 /\ pc = "write"
                 /\ Returned("Imager.run") /\ Returned("render") /\ Returned("savefig")
                 /\ out_io # NoBuffer)
          /\ (status = "Failed" /\ error # "IndexError" =>
                 calls # <<>> /\ calls[Len(calls)].result = error)
    /\ (kind = "OSKARInterferometer" /\ Len(outputs) = 0 /\ status = "Failed") =>
          calls = <<>>

C10_Witness ==
    /\ kind = "OSKARImager"
    /\ Len(inputs) >= 1
    /\ Len(outputs) = 0
    /\ status = "Failed"
    /\ error = "IndexError"
    /\ pc = "write"
    /\ Returned("Imager.run")
====
